---- MODULE Spec2Model ----
(***************************************************************************)
(* A model of invoice_ocr.py: the field extractor                          *)
(* (InvoiceProcessor.extract_invoice_fields), the extraction orchestrator  *)
(* (OCRWorker.run) and the handlers of InvoiceOCRApp that start a worker   *)
(* and consume its events.                                                 *)
(*                                                                         *)
(* A Python str is a sequence of one-character strings, so that upper(),   *)
(* strip(), split() and the regular expressions are computed character by  *)
(* character.                                                              *)
(***************************************************************************)
EXTENDS Integers, Sequences, FiniteSets, TLC

(***************************************************************************)
(* Characters and the str methods the program uses                         *)
(***************************************************************************)
LowerLetters == <<"a","b","c","d","e","f","g","h","i","j","k","l","m",
                  "n","o","p","q","r","s","t","u","v","w","x","y","z">>

UpperLetters == <<"A","B","C","D","E","F","G","H","I","J","K","L","M",
                  "N","O","P","Q","R","S","T","U","V","W","X","Y","Z">>

Range(q) == {q[i] : i \in DOMAIN q}

LOWER == Range(LowerLetters)

UPPER == Range(UpperLetters)

\* \d
DIGIT == {"0","1","2","3","4","5","6","7","8","9"}

\* \s, and the characters str.strip() removes
SPACE == {" ", "\n", "\t", "\r"}

NL == "\n"

\* the empty str
Empty == << >>

UpperTable == [c \in LOWER |-> UpperLetters[CHOOSE i \in 1..26 : LowerLetters[i] = c]]

LowerTable == [c \in UPPER |-> LowerLetters[CHOOSE i \in 1..26 : UpperLetters[i] = c]]

\* str.upper()
upper(s) == [i \in 1..Len(s) |-> IF s[i] \in LOWER THEN UpperTable[s[i]] ELSE s[i]]

\* str.lower()
lower(s) == [i \in 1..Len(s) |-> IF s[i] \in UPPER THEN LowerTable[s[i]] ELSE s[i]]

RECURSIVE lstrip(_)
lstrip(s) == IF s # Empty /\ Head(s) \in SPACE THEN lstrip(Tail(s)) ELSE s

RECURSIVE rstrip(_)
rstrip(s) ==
  IF s # Empty /\ s[Len(s)] \in SPACE THEN rstrip(SubSeq(s, 1, Len(s) - 1)) ELSE s

\* str.strip()
strip(s) == rstrip(lstrip(s))

\* s.endswith(suffix)
endswith(s, suffix) ==
  /\ Len(suffix) <= Len(s)
  /\ SubSeq(s, Len(s) - Len(suffix) + 1, Len(s)) = suffix

\* s[i:].startswith(w), i a 1-based index
StartsAt(s, i, w) ==
  /\ i + Len(w) - 1 <= Len(s)
  /\ \A k \in 1..Len(w) : s[i + k - 1] = w[k]

\* w in s
contains(s, w) == \E i \in 1..(Len(s) + 1) : StartsAt(s, i, w)

\* text.split('\n'): the lines of s, one more than its line breaks
RECURSIVE SplitFrom(_, _, _)
SplitFrom(s, i, cur) ==
  IF i > Len(s) THEN <<cur>>
  ELSE IF s[i] = NL THEN <<cur>> \o SplitFrom(s, i + 1, Empty)
  ELSE SplitFrom(s, i + 1, Append(cur, s[i]))

split(s) == SplitFrom(s, 1, Empty)

\* sep.join(parts)
RECURSIVE join(_, _)
join(sep, parts) ==
  IF parts = << >> THEN Empty
  ELSE IF Len(parts) = 1 THEN parts[1]
  ELSE parts[1] \o sep \o join(sep, Tail(parts))

\* the characters of s that are not in cs: re.sub('[cs]', '', s), s.replace(c, '')
RECURSIVE Without(_, _)
Without(s, cs) ==
  IF s = Empty THEN Empty
  ELSE IF Head(s) \in cs THEN Without(Tail(s), cs)
  ELSE <<Head(s)>> \o Without(Tail(s), cs)

\* str.isdigit()
isdigit(s) == s # Empty /\ \A i \in 1..Len(s) : s[i] \in DIGIT

(***************************************************************************)
(* Regular expressions, as Python's re matches them: a backtracking        *)
(* matcher that tries alternatives left to right and repetitions greedily. *)
(* Match gives the positions where a match of r starting at i can end, in  *)
(* the order the matcher tries them.                                       *)
(***************************************************************************)
Set(cs) == [t |-> "set", cs |-> cs, rs |-> << >>, lo |-> 1, hi |-> 1]

Cat(rs) == [t |-> "cat", cs |-> {}, rs |-> rs, lo |-> 1, hi |-> 1]

Alt(rs) == [t |-> "alt", cs |-> {}, rs |-> rs, lo |-> 1, hi |-> 1]

Rep(r, lo, hi) == [t |-> "rep", cs |-> {}, rs |-> <<r>>, lo |-> lo, hi |-> hi]

Lit(w) == Cat([i \in 1..Len(w) |-> Set({w[i]})])

\* hi = -1: no upper limit
Star(r) == Rep(r, 0, -1)

Plus(r) == Rep(r, 1, -1)

Opt(r) == Rep(r, 0, 1)

RECURSIVE Match(_, _, _)
RECURSIVE MatchCat(_, _, _, _)
RECURSIVE MatchAlt(_, _, _, _)
RECURSIVE MatchRep(_, _, _, _, _)
RECURSIVE ThenCat(_, _, _, _, _)
RECURSIVE ThenRep(_, _, _, _, _, _, _)

Match(r, s, i) ==
  CASE r.t = "set" -> IF i <= Len(s) /\ s[i] \in r.cs THEN <<i + 1>> ELSE << >>
    [] r.t = "cat" -> MatchCat(r.rs, 1, s, i)
    [] r.t = "alt" -> MatchAlt(r.rs, 1, s, i)
    [] r.t = "rep" -> MatchRep(r.rs[1], r.lo, r.hi, s, i)

\* rs[k], rs[k+1], ... one after the other
MatchCat(rs, k, s, i) ==
  IF k > Len(rs) THEN <<i>> ELSE ThenCat(Match(rs[k], s, i), 1, rs, k, s)

ThenCat(ends, n, rs, k, s) ==
  IF n > Len(ends) THEN << >>
  ELSE MatchCat(rs, k + 1, s, ends[n]) \o ThenCat(ends, n + 1, rs, k, s)

\* rs[k] | rs[k+1] | ...
MatchAlt(rs, k, s, i) ==
  IF k > Len(rs) THEN << >> ELSE Match(rs[k], s, i) \o MatchAlt(rs, k + 1, s, i)

\* r{lo,hi}, greedy: one more r first, stopping here last
MatchRep(r, lo, hi, s, i) ==
  (IF hi = 0 THEN << >> ELSE ThenRep(Match(r, s, i), 1, r, lo, hi, s, i))
  \o (IF lo = 0 THEN <<i>> ELSE << >>)

ThenRep(ends, n, r, lo, hi, s, i) ==
  IF n > Len(ends) THEN << >>
  ELSE (IF ends[n] > i
        THEN MatchRep(r, IF lo > 0 THEN lo - 1 ELSE 0,
                      IF hi > 0 THEN hi - 1 ELSE hi, s, ends[n])
        ELSE << >>)
       \o ThenRep(ends, n + 1, r, lo, hi, s, i)

\* A pattern of the program is a prefix followed by its one capture group,
\* which ends the pattern.
Pattern(pre, grp) == [pre |-> pre, grp |-> grp]

NoMatch == [found |-> FALSE, start |-> 0, end |-> 0, group |-> Empty]

\* the first way to end the prefix after which the group matches
RECURSIVE FirstGroup(_, _, _, _, _)
FirstGroup(pes, n, p, s, i) ==
  IF n > Len(pes) THEN NoMatch
  ELSE LET ges == Match(p.grp, s, pes[n])
       IN IF ges # << >>
          THEN [found |-> TRUE, start |-> i, end |-> ges[1],
                group |-> SubSeq(s, pes[n], ges[1] - 1)]
          ELSE FirstGroup(pes, n + 1, p, s, i)

\* pattern.match(s, i)
MatchAt(p, s, i) == FirstGroup(Match(p.pre, s, i), 1, p, s, i)

\* re.search(p, s) from position i on: the leftmost match
RECURSIVE SearchFrom(_, _, _)
SearchFrom(p, s, i) ==
  IF i > Len(s) + 1 THEN NoMatch
  ELSE LET m == MatchAt(p, s, i)
       IN IF m.found THEN m ELSE SearchFrom(p, s, i + 1)

search(p, s) == SearchFrom(p, s, 1)

\* re.findall(p, s): the group of each successive non-overlapping match
RECURSIVE FindallFrom(_, _, _)
FindallFrom(p, s, i) ==
  LET m == SearchFrom(p, s, i)
  IN IF ~m.found THEN << >>
     ELSE <<m.group>> \o FindallFrom(p, s, IF m.end > m.start THEN m.end ELSE m.end + 1)

findall(p, s) == FindallFrom(p, s, 1)

(***************************************************************************)
(* InvoiceProcessor.extract_invoice_fields                                 *)
(***************************************************************************)
FieldNames == {"invoice_number", "invoice_date", "due_date", "vendor_name",
               "vendor_address", "bill_to", "total_amount", "subtotal",
               "tax_amount", "currency"}

\* \s
WS == Set(SPACE)

\* \d
D == Set(DIGIT)

\* [A-Z0-9\-]+
Token == Plus(Set(UPPER \cup DIGIT \cup {"-"}))

\* [/\-\.]
DateSep == Set({"/", "-", "."})

\* (?:GBP|USD|EUR|\$|£|€)
CurrencyCode == Alt(<<Lit(<<"G","B","P">>), Lit(<<"U","S","D">>), Lit(<<"E","U","R">>),
                      Set({"$"}), Set({"£"}), Set({"€"})>>)

\* ([£$€]?\s*[\d,]+\.?\d*)
Amount == Cat(<<Opt(Set({"£", "$", "€"})), Star(WS), Plus(Set(DIGIT \cup {","})),
                Opt(Set({"."})), Star(D)>>)

invoice_patterns == <<
  \* INVOICE\s*(?:NO|NUMBER|#)?\s*:?\s*([A-Z0-9\-]+)
  Pattern(Cat(<<Lit(<<"I","N","V","O","I","C","E">>), Star(WS),
                Opt(Alt(<<Lit(<<"N","O">>), Lit(<<"N","U","M","B","E","R">>), Lit(<<"#">>)>>)),
                Star(WS), Opt(Set({":"})), Star(WS)>>), Token),
  \* INV\s*(?:NO|#)?\s*:?\s*([A-Z0-9\-]+)
  Pattern(Cat(<<Lit(<<"I","N","V">>), Star(WS), Opt(Alt(<<Lit(<<"N","O">>), Lit(<<"#">>)>>)),
                Star(WS), Opt(Set({":"})), Star(WS)>>), Token),
  \* INVOICE\s+([A-Z0-9\-]+)
  Pattern(Cat(<<Lit(<<"I","N","V","O","I","C","E">>), Plus(WS)>>), Token),
  \* #\s*([A-Z0-9\-]+)
  Pattern(Cat(<<Lit(<<"#">>), Star(WS)>>), Token) >>

date_patterns == <<
  \* (\d{1,2}[/\-\.]\d{1,2}[/\-\.]\d{2,4})
  Pattern(Cat(<< >>), Cat(<<Rep(D, 1, 2), DateSep, Rep(D, 1, 2), DateSep, Rep(D, 2, 4)>>)),
  \* (\d{1,2}\s+[A-Za-z]{3,9}\s+\d{2,4})
  Pattern(Cat(<< >>), Cat(<<Rep(D, 1, 2), Plus(WS), Rep(Set(UPPER \cup LOWER), 3, 9),
                            Plus(WS), Rep(D, 2, 4)>>)),
  \* (\d{2,4}[/\-\.]\d{1,2}[/\-\.]\d{1,2})
  Pattern(Cat(<< >>), Cat(<<Rep(D, 2, 4), DateSep, Rep(D, 1, 2), DateSep, Rep(D, 1, 2)>>)) >>

amount_patterns == <<
  \* TOTAL\s*(?:GBP|USD|EUR|\$|£|€)?:?\s*([£$€]?\s*[\d,]+\.?\d*)
  Pattern(Cat(<<Lit(<<"T","O","T","A","L">>), Star(WS), Opt(CurrencyCode), Opt(Set({":"})), Star(WS)>>),
          Amount),
  \* AMOUNT\s+DUE\s*(?:GBP|USD|EUR|\$|£|€)?:?\s*([£$€]?\s*[\d,]+\.?\d*)
  Pattern(Cat(<<Lit(<<"A","M","O","U","N","T">>), Plus(WS), Lit(<<"D","U","E">>), Star(WS), Opt(CurrencyCode),
                Opt(Set({":"})), Star(WS)>>), Amount),
  \* SUBTOTAL\s*:?\s*([£$€]?\s*[\d,]+\.?\d*)
  Pattern(Cat(<<Lit(<<"S","U","B","T","O","T","A","L">>), Star(WS), Opt(Set({":"})), Star(WS)>>), Amount),
  \* TAX\s*(?:\d+%)?:?\s*([£$€]?\s*[\d,]+\.?\d*)
  Pattern(Cat(<<Lit(<<"T","A","X">>), Star(WS), Opt(Cat(<<Plus(D), Set({"%"})>>)),
                Opt(Set({":"})), Star(WS)>>), Amount) >>

\* [£$€]|GBP|USD|EUR, whose group() is the whole match
currency_pattern ==
  Pattern(Cat(<< >>), Alt(<<Set({"£", "$", "€"}), Lit(<<"G","B","P">>), Lit(<<"U","S","D">>), Lit(<<"E","U","R">>)>>))

\* a variant of currency_symbols with no entry for the euro sign
currency_symbols_no_euro(m) ==
  CASE m = <<"£">> -> <<"G","B","P">>
    [] m = <<"$">> -> <<"U","S","D">>
    [] OTHER -> m

\* currency_symbols.get(m, m)
currency_symbols(m) ==
  CASE m = <<"£">> -> <<"G","B","P">>
    [] m = <<"$">> -> <<"U","S","D">>
    [] m = <<"€">> -> <<"E","U","R">>
    [] OTHER -> m

\* for pattern in invoice_patterns: the first pattern that matches decides
RECURSIVE InvoiceNumberFrom(_, _)
InvoiceNumberFrom(k, text_upper) ==
  IF k > Len(invoice_patterns) THEN Empty
  ELSE LET match == search(invoice_patterns[k], text_upper)
       IN IF match.found THEN strip(match.group)
          ELSE InvoiceNumberFrom(k + 1, text_upper)

\* a variant of the loop with no break: the last pattern that matches decides
RECURSIVE InvoiceNumberLast(_, _, _)
InvoiceNumberLast(k, text_upper, value) ==
  IF k > Len(invoice_patterns) THEN value
  ELSE LET match == search(invoice_patterns[k], text_upper)
       IN InvoiceNumberLast(k + 1, text_upper,
                            IF match.found THEN strip(match.group) ELSE value)

invoice_number_no_break(text_upper) == InvoiceNumberLast(1, text_upper, Empty)

invoice_number(text_upper) == InvoiceNumberFrom(1, text_upper)

\* dates_found: every match of every date pattern, pattern after pattern
RECURSIVE DatesFrom(_, _)
DatesFrom(k, txt) ==
  IF k > Len(date_patterns) THEN << >>
  ELSE findall(date_patterns[k], txt) \o DatesFrom(k + 1, txt)

\* a variant that takes the first match of each date pattern only
RECURSIVE DatesFirstOnly(_, _)
DatesFirstOnly(k, txt) ==
  IF k > Len(date_patterns) THEN << >>
  ELSE LET match == search(date_patterns[k], txt)
       IN (IF match.found THEN <<match.group>> ELSE << >>) \o DatesFirstOnly(k + 1, txt)

dates_found_first_only(txt) == DatesFirstOnly(1, txt)

dates_found(txt) == DatesFrom(1, txt)

\* re.sub(r'[£$€,\s]', '', match.group(1))
StripAmount(token) == Without(token, {"£", "$", "€", ","} \cup SPACE)

\* a variant of the check that accepts every stripped token
AmountUnchecked(amount) == TRUE

\* amount.replace('.', '').isdigit()
AmountOk(amount) == isdigit(Without(amount, {"."}))

\* the value one amount pattern gives: a checked amount, or nothing
AmountOf(p, text_upper) ==
  LET match == search(p, text_upper)
      amount == StripAmount(match.group)
  IN IF match.found /\ AmountOk(amount) THEN [set |-> TRUE, amount |-> amount]
     ELSE [set |-> FALSE, amount |-> Empty]

\* for pattern in amount_patterns[:2]: the first pattern whose amount passes
\* the check decides (the break is inside the check)
RECURSIVE TotalAmountFrom(_, _)
TotalAmountFrom(k, text_upper) ==
  IF k > 2 THEN Empty
  ELSE LET a == AmountOf(amount_patterns[k], text_upper)
       IN IF a.set THEN a.amount ELSE TotalAmountFrom(k + 1, text_upper)

\* a variant with the break outside the check: the first pattern that matches
\* decides, whether its amount passes the check or not
RECURSIVE TotalAmountBreakOnMatch(_, _)
TotalAmountBreakOnMatch(k, text_upper) ==
  IF k > 2 THEN Empty
  ELSE IF search(amount_patterns[k], text_upper).found
       THEN AmountOf(amount_patterns[k], text_upper).amount
       ELSE TotalAmountBreakOnMatch(k + 1, text_upper)

total_amount_break_on_match(text_upper) == TotalAmountBreakOnMatch(1, text_upper)

total_amount(text_upper) == TotalAmountFrom(1, text_upper)

VendorKeywords == <<<<"I","N","V","O","I","C","E">>, <<"B","I","L","L"," ","T","O">>, <<"D","A","T","E">>>>

\* line.strip() and not any(keyword in line.upper() ...)
VendorLine(line) ==
  /\ strip(line) # Empty
  /\ \A k \in 1..Len(VendorKeywords) : ~contains(upper(line), VendorKeywords[k])

\* for i, line in enumerate(text_lines[:10]): collect, break at 3 lines
RECURSIVE VendorLinesFrom(_, _, _)
VendorLinesFrom(text_lines, i, vendor_lines) ==
  IF i > Len(text_lines) \/ i > 10 THEN vendor_lines
  ELSE IF VendorLine(text_lines[i])
       THEN LET more == Append(vendor_lines, strip(text_lines[i]))
            IN IF Len(more) >= 3 THEN more
               ELSE VendorLinesFrom(text_lines, i + 1, more)
       ELSE VendorLinesFrom(text_lines, i + 1, vendor_lines)

\* a variant of the loop over all the lines of the text, not the first 10
RECURSIVE VendorLinesOfAll(_, _, _)
VendorLinesOfAll(text_lines, i, vendor_lines) ==
  IF i > Len(text_lines) THEN vendor_lines
  ELSE IF VendorLine(text_lines[i])
       THEN LET more == Append(vendor_lines, strip(text_lines[i]))
            IN IF Len(more) >= 3 THEN more
               ELSE VendorLinesOfAll(text_lines, i + 1, more)
       ELSE VendorLinesOfAll(text_lines, i + 1, vendor_lines)

vendor_lines_of_all(text_lines) == VendorLinesOfAll(text_lines, 1, << >>)

vendor_lines(text_lines) == VendorLinesFrom(text_lines, 1, << >>)

\* bill_to_start, as a 1-based index; 0 when no line has BILL TO
RECURSIVE BillToStartFrom(_, _)
BillToStartFrom(text_lines, i) ==
  IF i > Len(text_lines) THEN 0
  ELSE IF contains(upper(text_lines[i]), <<"B","I","L","L"," ","T","O">>) THEN i
  ELSE BillToStartFrom(text_lines, i + 1)

bill_to_start(text_lines) == BillToStartFrom(text_lines, 1)

\* for i in range(bill_to_start + 1, min(bill_to_start + 6, len(text_lines)))
RECURSIVE BillToLinesFrom(_, _, _)
BillToLinesFrom(text_lines, i, last) ==
  IF i > last THEN << >>
  ELSE IF strip(text_lines[i]) # Empty
       THEN <<strip(text_lines[i])>> \o BillToLinesFrom(text_lines, i + 1, last)
       ELSE << >>

\* a variant of the loop that skips a blank line and goes on
RECURSIVE BillToLinesSkipBlank(_, _, _)
BillToLinesSkipBlank(text_lines, i, last) ==
  IF i > last THEN << >>
  ELSE (IF strip(text_lines[i]) # Empty THEN <<strip(text_lines[i])>> ELSE << >>)
         \o BillToLinesSkipBlank(text_lines, i + 1, last)

bill_to_skip_blank(text_lines) ==
  LET start == bill_to_start(text_lines)
      last == IF start + 5 < Len(text_lines) THEN start + 5 ELSE Len(text_lines)
  IN IF start > 0 THEN join(<<" ">>, BillToLinesSkipBlank(text_lines, start + 1, last))
     ELSE Empty

bill_to(text_lines) ==
  LET start == bill_to_start(text_lines)
      last == IF start + 5 < Len(text_lines) THEN start + 5 ELSE Len(text_lines)
  IN IF start > 0 THEN join(<<" ">>, BillToLinesFrom(text_lines, start + 1, last))
     ELSE Empty

\* a variant whose mapping starts empty: a field that found nothing has no key
extract_invoice_fields_sparse(txt) ==
  LET dates == dates_found(txt)
      all == [invoice_date |-> IF Len(dates) > 0 THEN dates[1] ELSE Empty,
              due_date     |-> IF Len(dates) > 1 THEN dates[2] ELSE Empty]
  IN [k \in {f \in DOMAIN all : all[f] # Empty} |-> all[k]]

extract_invoice_fields(txt) ==
  LET text_lines == split(txt)
      text_upper == upper(txt)
      dates == dates_found(txt)
      vendor == vendor_lines(text_lines)
      currency_match == search(currency_pattern, text_upper)
  IN [invoice_number |-> invoice_number(text_upper),
      invoice_date   |-> IF Len(dates) > 0 THEN dates[1] ELSE Empty,
      due_date       |-> IF Len(dates) > 1 THEN dates[2] ELSE Empty,
      vendor_name    |-> IF vendor # << >> THEN vendor[1] ELSE Empty,
      vendor_address |-> IF vendor # << >> THEN join(<<" ">>, Tail(vendor)) ELSE Empty,
      bill_to        |-> bill_to(text_lines),
      total_amount   |-> total_amount(text_upper),
      subtotal       |-> AmountOf(amount_patterns[3], text_upper).amount,
      tax_amount     |-> AmountOf(amount_patterns[4], text_upper).amount,
      currency       |-> IF currency_match.found
                         THEN currency_symbols(currency_match.group) ELSE Empty]

(***************************************************************************)
(* State                                                                   *)
(*   text, nparts, returned: a call of extract_invoice_fields: its         *)
(*     argument, the number of fragments the argument was put together     *)
(*     from, and the values returned so far (none before the call, the     *)
(*     field mapping after it).                                            *)
(*   file_path, process_btn, progress_bar, worker, results_table,          *)
(*     processed_invoices: the attributes and widgets of InvoiceOCRApp     *)
(*     that its handlers read or that hold its results.  file_path is ""   *)
(*     while the attribute is not set; worker is the number of the         *)
(*     OCRWorker self.worker refers to, 0 for None.  The widgets that only *)
(*     display (status_label, file_label, field_inputs, full_text_display, *)
(*     export_preview, the current tab) and current_result, which nothing  *)
(*     reads, are left out.                                                *)
(*   workers: the OCRWorker objects that exist, in the order of their      *)
(*     start: the one self.worker refers to and those whose run has not    *)
(*     returned.                                                           *)
(*   events: the finished and error signals emitted by the workers and not *)
(*     yet delivered to their slots, which run in the GUI thread.  The     *)
(*     slot of progress, update_status, only sets the status label: a      *)
(*     progress signal is recorded in the log of its worker (emitted) and  *)
(*     is not queued.                                                      *)
(*   temp_files: the page numbers p for which temp_page_p.png exists.      *)
(***************************************************************************)
VARIABLES text, nparts, returned,
          file_path, process_btn, progress_bar, worker, results_table,
          processed_invoices,
          workers, events, temp_files

callVars == <<text, nparts, returned>>

appVars == <<file_path, process_btn, progress_bar, worker, results_table,
             processed_invoices>>

threadVars == <<workers, events, temp_files>>

vars == <<callVars, appVars, threadVars>>

\* the most fragments an input text is put together from
MaxParts == 3

\* the most workers started in a run of the application
MaxRuns == 2

\* the most pages of a PDF
MaxPages == 2

(***************************************************************************)
(* The inputs: the files the dialog can return, and what the recognition   *)
(* backends do with an image                                               *)
(***************************************************************************)
Files == {<<"i","n","/","a",".","P","D","F">>, <<"b",".","p","n","g">>}

Engines == {"Tesseract", "EasyOCR"}

Images == {
  \* a file cv2.imread cannot decode, and on which readtext raises
  [decodable |-> FALSE, tesseract_raises |-> FALSE, tesseract_output |-> Empty,
   easyocr_raises |-> TRUE, detections |-> << >>],
  \* an image on which both engines raise
  [decodable |-> TRUE, tesseract_raises |-> TRUE, tesseract_output |-> Empty,
   easyocr_raises |-> TRUE, detections |-> << >>],
  \* an image both engines read
  [decodable |-> TRUE, tesseract_raises |-> FALSE, tesseract_output |-> <<" ","I","N","V"," ","7","\n">>,
   easyocr_raises |-> FALSE,
   detections |-> <<[text |-> <<"T","A","X">>, confidence |-> 31],
                    [text |-> <<"z","z">>, confidence |-> 30],
                    [text |-> <<"5">>, confidence |-> 90]>>] }

(***************************************************************************)
(* InvoiceProcessor: the recognition adapters and the rasterizer.  What a  *)
(* call gives back is a returned str or an exception raised to the caller. *)
(***************************************************************************)
Return(t) == [raised |-> FALSE, text |-> t]

Raise == [raised |-> TRUE, text |-> Empty]

\* a variant of extract_text_tesseract without the try: the exception of the
\* engine reaches the caller
extract_text_tesseract_no_try(image) ==
  IF ~image.decodable THEN Return(Empty)
  ELSE IF image.tesseract_raises THEN Raise
  ELSE Return(strip(image.tesseract_output))

extract_text_tesseract(image) ==
  IF ~image.decodable THEN Return(Empty)
  ELSE IF image.tesseract_raises THEN Return(Empty)
  ELSE Return(strip(image.tesseract_output))

\* confidence > 0.3, the confidences counted in hundredths
ConfidenceFloor == 30

\* the texts of the detections that pass the confidence filter
RECURSIVE text_lines_of(_)
text_lines_of(results) ==
  IF results = << >> THEN << >>
  ELSE (IF Head(results).confidence > ConfidenceFloor THEN <<Head(results).text>>
        ELSE << >>) \o text_lines_of(Tail(results))

extract_text_easyocr(image) ==
  IF image.easyocr_raises THEN Return(Empty)
  ELSE Return(join(<<NL>>, text_lines_of(image.detections)))

\* the backend failed on the image: it raised, or the image did not decode
BackendFailed(engine, image) ==
  IF engine = "Tesseract" THEN ~image.decodable \/ image.tesseract_raises
  ELSE image.easyocr_raises

\* pdf_to_images on a document of `pages` pages of which page `bad` is the
\* first that cannot be rendered or written (bad = pages: none; a document
\* that cannot be opened has bad = 0): the pages before it are written, and
\* the list of paths is returned only when no exception was raised
pdf_to_images(pages, bad) ==
  [written |-> 0..(bad - 1),
   images |-> IF bad = pages THEN [i \in 1..pages |-> i - 1] ELSE << >>]

(***************************************************************************)
(* OCRWorker                                                               *)
(***************************************************************************)
Progress(message) == [signal |-> "progress", arg |-> <<message>>]

Finished(result) == [signal |-> "finished", arg |-> <<result>>]

Error(message) == [signal |-> "error", arg |-> <<message>>]

\* OCRWorker.__init__
OCRWorker(path, engine) ==
  [file_path |-> path, ocr_engine |-> engine,
   state |-> "Idle", returned |-> FALSE,
   images |-> << >>, written |-> {}, remove_attempted |-> {},
   recognized |-> FALSE, backend_failed |-> FALSE, full_text |-> Empty,
   extracted |-> FALSE, result |-> << >>,
   emitted |-> << >>]

\* self.file_path.lower().endswith('.pdf')
IsPdf(path) == endswith(lower(path), <<".","p","d","f">>)

\* the signals whose slot changes the state of the window
Queued(signals) == SelectSeq(signals, LAMBDA e : e.signal # "progress")

\* the worker after it has emitted the signals
Emit(me, signals) ==
  [me EXCEPT !.emitted = @ \o [i \in 1..Len(signals) |-> signals[i].signal]]

\* run, up to the conversion of a PDF
RunStart(w) ==
  LET me == workers[w]
      pdf == IsPdf(me.file_path)
      signals == <<Progress("Starting OCR processing...")>>
                   \o (IF pdf THEN <<Progress("Converting PDF to images...")>> ELSE << >>)
  IN /\ me.state = "Idle"
     /\ workers' = [workers EXCEPT ![w] =
          Emit([me EXCEPT !.state = IF pdf THEN "Rasterizing" ELSE "Recognizing"], signals)]
     /\ events' = events \o Queued(signals)
     /\ UNCHANGED <<temp_files, appVars, callVars>>

\* not images
NoPages(images) == images = << >>

\* a variant of Rasterize that goes on with the selected file when the PDF
\* gave no page
RasterizeFallThrough(w) ==
  LET me == workers[w]
  IN /\ me.state = "Rasterizing"
     /\ \E pages \in 0..MaxPages : \E bad \in 0..pages :
          LET pdf == pdf_to_images(pages, bad)
          IN /\ temp_files' = temp_files \cup pdf.written
             /\ workers' = [workers EXCEPT ![w] =
                  [me EXCEPT !.images = pdf.images, !.written = pdf.written,
                             !.state = "Recognizing"]]
             /\ UNCHANGED events
     /\ UNCHANGED <<appVars, callVars>>

\* images = self.processor.pdf_to_images(self.file_path), and the return of
\* run when there is no page
Rasterize(w) ==
  LET me == workers[w]
  IN /\ me.state = "Rasterizing"
     /\ \E pages \in 0..MaxPages : \E bad \in 0..pages :
          LET pdf == pdf_to_images(pages, bad)
              signals == <<Error("Failed to convert PDF to images")>>
          IN /\ temp_files' = temp_files \cup pdf.written
             /\ IF NoPages(pdf.images)
                THEN /\ workers' = [workers EXCEPT ![w] =
                          Emit([me EXCEPT !.images = pdf.images, !.written = pdf.written,
                                          !.state = "Failed", !.returned = TRUE], signals)]
                     /\ events' = events \o Queued(signals)
                ELSE /\ workers' = [workers EXCEPT ![w] =
                          [me EXCEPT !.images = pdf.images, !.written = pdf.written,
                                     !.state = "Recognizing"]]
                     /\ UNCHANGED events
     /\ UNCHANGED <<appVars, callVars>>

\* f"Extracting text using {self.ocr_engine}..."
ExtractingText(engine) ==
  IF engine = "Tesseract" THEN "Extracting text using Tesseract..."
  ELSE "Extracting text using EasyOCR..."

\* the recognition of the first page, or of the selected image; an exception
\* that reaches run is caught by its handler, which emits error
Recognize(w) ==
  LET me == workers[w]
      progress == <<Progress(ExtractingText(me.ocr_engine))>>
  IN /\ me.state = "Recognizing"
     /\ \E image \in Images :
          LET got == IF me.ocr_engine = "Tesseract" THEN extract_text_tesseract(image)
                     ELSE extract_text_easyocr(image)
              failed == BackendFailed(me.ocr_engine, image)
              signals == IF got.raised
                         THEN progress \o <<Error("OCR processing failed")>>
                         ELSE progress
          IN /\ workers' = [workers EXCEPT ![w] =
                  IF got.raised
                  THEN Emit([me EXCEPT !.recognized = TRUE, !.backend_failed = failed,
                                       !.state = "Failed", !.returned = TRUE], signals)
                  ELSE Emit([me EXCEPT !.recognized = TRUE, !.backend_failed = failed,
                                       !.full_text = got.text,
                                       !.state = "Extracting"], signals)]
             /\ events' = events \o Queued(signals)
     /\ UNCHANGED <<temp_files, appVars, callVars>>

\* a variant of the signals of Extract with the last two in the other order
ExtractSignalsFinishedFirst(result) ==
  <<Progress("Extracting invoice fields..."), Finished(result),
    Progress("OCR processing completed!")>>

\* the signals run emits around the field extraction
ExtractSignals(result) ==
  <<Progress("Extracting invoice fields..."),
    Progress("OCR processing completed!"), Finished(result)>>

\* the field extraction and the result
Extract(w) ==
  LET me == workers[w]
      result == [full_text |-> me.full_text,
                 fields |-> extract_invoice_fields(me.full_text),
                 file_path |-> me.file_path]
      signals == ExtractSignals(result)
  IN /\ me.state = "Extracting"
     /\ workers' = [workers EXCEPT ![w] =
          Emit([me EXCEPT !.extracted = TRUE, !.result = <<result>>, !.state = "Done"],
               signals)]
     /\ events' = events \o Queued(signals)
     /\ UNCHANGED <<temp_files, appVars, callVars>>

\* the removal of the page images after finished; os.remove may fail on any
\* of them, and the failure is swallowed
Cleanup(w) ==
  LET me == workers[w]
      paths == IF IsPdf(me.file_path) THEN Range(me.images) ELSE {}
  IN /\ me.state = "Done"
     /\ ~me.returned
     /\ \E kept \in SUBSET paths :
          temp_files' = temp_files \ (paths \ kept)
     /\ workers' = [workers EXCEPT ![w] =
          [me EXCEPT !.remove_attempted = paths, !.returned = TRUE]]
     /\ UNCHANGED <<events, appVars, callVars>>

(***************************************************************************)
(* InvoiceOCRApp                                                           *)
(***************************************************************************)
\* os.path.basename(path)
basename(path) ==
  LET slashes == {i \in 1..Len(path) : path[i] = "/"}
  IN IF slashes = {} THEN path
     ELSE SubSeq(path, (CHOOSE i \in slashes : \A j \in slashes : j <= i) + 1, Len(path))

\* the dialog gives a file, or "" when it is cancelled
select_file ==
  /\ \E path \in Files \cup {Empty} :
       IF path # Empty
       THEN /\ file_path' = path
            /\ process_btn' = TRUE
       ELSE UNCHANGED <<file_path, process_btn>>
  /\ UNCHANGED <<progress_bar, worker, results_table, processed_invoices>>
  /\ UNCHANGED <<threadVars, callVars>>

\* the workers whose run has not returned
Running(ws) == SelectSeq(ws, LAMBDA w : ~w.returned)

\* a click on the enabled process button, with the engine of the combo box;
\* the worker self.worker referred to is released unless it still runs
process_invoice ==
  /\ process_btn
  /\ worker < MaxRuns
  /\ IF file_path = Empty
     THEN UNCHANGED <<process_btn, progress_bar, worker, workers>>
     ELSE /\ process_btn' = FALSE
          /\ progress_bar' = TRUE
          /\ \E engine \in Engines :
               workers' = Append(Running(workers), OCRWorker(file_path, engine))
          /\ worker' = worker + 1
  /\ UNCHANGED <<file_path, results_table, processed_invoices>>
  /\ UNCHANGED <<events, temp_files, callVars>>

\* the row add_to_results_table inserts
Row(result) ==
  <<basename(result.file_path), result.fields.invoice_number,
    result.fields.invoice_date, result.fields.vendor_name, result.fields.bill_to,
    result.fields.currency, result.fields.subtotal, result.fields.tax_amount,
    result.fields.total_amount, <<"P","r","o","c","e","s","s","e","d">>>>

\* a variant of the slot of finished that adds nothing for a result the
\* ledger already holds
on_ocr_finished_once ==
  /\ events # << >>
  /\ Head(events).signal = "finished"
  /\ LET result == Head(events).arg[1]
         held == \E i \in 1..Len(processed_invoices) : processed_invoices[i] = result
     IN /\ results_table' = IF held THEN results_table ELSE Append(results_table, Row(result))
        /\ processed_invoices' = IF held THEN processed_invoices
                                  ELSE Append(processed_invoices, result)
  /\ progress_bar' = FALSE
  /\ process_btn' = TRUE
  /\ events' = Tail(events)
  /\ UNCHANGED <<file_path, worker, workers, temp_files, callVars>>

\* the slot of finished
on_ocr_finished ==
  /\ events # << >>
  /\ Head(events).signal = "finished"
  /\ LET result == Head(events).arg[1]
     IN /\ results_table' = Append(results_table, Row(result))
        /\ processed_invoices' = Append(processed_invoices, result)
  /\ progress_bar' = FALSE
  /\ process_btn' = TRUE
  /\ events' = Tail(events)
  /\ UNCHANGED <<file_path, worker, workers, temp_files, callVars>>

\* the slot of error
on_ocr_error ==
  /\ events # << >>
  /\ Head(events).signal = "error"
  /\ progress_bar' = FALSE
  /\ process_btn' = TRUE
  /\ events' = Tail(events)
  /\ UNCHANGED <<file_path, worker, results_table, processed_invoices>>
  /\ UNCHANGED <<workers, temp_files, callVars>>

\* a variant of clear_results that leaves the rows of the table
clear_results_keeps_rows ==
  /\ processed_invoices' = << >>
  /\ UNCHANGED <<file_path, process_btn, progress_bar, worker, results_table>>
  /\ UNCHANGED <<threadVars, callVars>>

clear_results ==
  /\ results_table' = << >>
  /\ processed_invoices' = << >>
  /\ UNCHANGED <<file_path, process_btn, progress_bar, worker>>
  /\ UNCHANGED <<threadVars, callVars>>

\* InvoiceOCRApp.__init__ and initUI
InitApp ==
  /\ file_path = Empty
  /\ process_btn = FALSE
  /\ progress_bar = FALSE
  /\ worker = 0
  /\ results_table = << >>
  /\ processed_invoices = << >>
  /\ workers = << >>
  /\ events = << >>
  /\ temp_files = {}

InitNoCall ==
  /\ text = Empty
  /\ nparts = 0
  /\ returned = << >>

Init == InitApp /\ InitNoCall

Next ==
  \/ select_file
  \/ process_invoice
  \/ clear_results
  \/ on_ocr_finished
  \/ on_ocr_error
  \/ \E w \in 1..Len(workers) :
       \/ RunStart(w)
       \/ Rasterize(w)
       \/ Recognize(w)
       \/ Extract(w)
       \/ Cleanup(w)

Spec == Init /\ [][Next]_vars

(***************************************************************************)
(* One run of OCRWorker.run, for every file and engine, with the slots     *)
(* that receive its signals                                                *)
(***************************************************************************)
InitRun ==
  /\ InitNoCall
  /\ \E path \in Files :
       /\ file_path = path
       /\ \E engine \in Engines : workers = <<OCRWorker(path, engine)>>
  /\ process_btn = FALSE
  /\ progress_bar = TRUE
  /\ worker = 1
  /\ results_table = << >>
  /\ processed_invoices = << >>
  /\ events = << >>
  /\ temp_files = {}

NextRun ==
  \/ RunStart(1)
  \/ Rasterize(1)
  \/ Recognize(1)
  \/ Extract(1)
  \/ Cleanup(1)
  \/ on_ocr_finished
  \/ on_ocr_error

SpecRun == InitRun /\ [][NextRun]_vars

(***************************************************************************)
(* The window with each OCRWorker.run taken as one step.  A run reaches    *)
(* the window only through the finished or error signal it queues, so the  *)
(* window sees the same deliveries as with the run taken step by step.     *)
(***************************************************************************)
\* the most pages of a PDF in a run taken as one step; the window reads no
\* page image, and a run reads the first only
WindowPages == 1

\* OCRWorker.run, from its first statement to its return; the thread is
\* finished then and nothing reads the worker any more
run(w) ==
  LET me == workers[w]
      pdf == IsPdf(me.file_path)
  IN /\ me.state = "Idle"
     /\ \E image \in Images :
          LET got == IF me.ocr_engine = "Tesseract" THEN extract_text_tesseract(image)
                     ELSE extract_text_easyocr(image)
              result == [full_text |-> got.text,
                         fields |-> extract_invoice_fields(got.text),
                         file_path |-> me.file_path]
              recognition == IF got.raised THEN <<Error("OCR processing failed")>>
                             ELSE ExtractSignals(result)
          IN \E pages \in 0..(IF pdf THEN WindowPages ELSE 0) : \E bad \in 0..pages :
               LET converted == pdf_to_images(pages, bad)
                   no_pages == pdf /\ NoPages(converted.images)
                   signals == IF no_pages THEN <<Error("Failed to convert PDF to images")>>
                              ELSE recognition
                   written == IF pdf THEN converted.written ELSE {}
                   paths == IF pdf /\ ~no_pages /\ ~got.raised THEN Range(converted.images)
                            ELSE {}
               IN /\ events' = events \o Queued(signals)
                  /\ \E kept \in SUBSET paths :
                       temp_files' = (temp_files \cup written) \ (paths \ kept)
     /\ workers' = SelectSeq([workers EXCEPT ![w] = [me EXCEPT !.returned = TRUE]],
                             LAMBDA other : ~other.returned)
     /\ UNCHANGED <<appVars, callVars>>

NextWindow ==
  \/ select_file
  \/ process_invoice
  \/ clear_results
  \/ on_ocr_finished
  \/ on_ocr_error
  \/ \E w \in 1..Len(workers) : run(w)

SpecWindow == Init /\ [][NextWindow]_vars

\* the step delivers the signal at the head of the queue to its slot
Delivers(signal) ==
  /\ events # << >>
  /\ Head(events).signal = signal
  /\ events' = Tail(events)

\* C13: the ledger grows only by the delivery of finished, and then by the
\* delivered result, appended whether or not the ledger holds it already; the
\* delivery of error and every other step leave it as it is, except a
\* clear_results, which empties it.  So the ledger is the list of the results
\* delivered since the last clear_results, in the order of delivery.
C13_LedgerIsDeliveriesInOrder ==
  [][IF Delivers("finished")
     THEN processed_invoices' = Append(processed_invoices, Head(events).arg[1])
     ELSE \/ processed_invoices' = processed_invoices
          \/ /\ processed_invoices' = << >>
             /\ ~Delivers("error")
             /\ UNCHANGED <<file_path, process_btn, progress_bar, worker, threadVars>>]_vars

\* the same file has been processed twice with the same outcome: the ledger
\* holds the result twice
C13_Witness ==
  /\ Len(processed_invoices) = 2
  /\ processed_invoices[1] = processed_invoices[2]
  /\ events = << >>

\* C15: the results table has as many rows as the ledger has entries.
C15_RowsMatchLedger == Len(results_table) = Len(processed_invoices)

\* two results have been delivered: two rows, and each is the row of its entry
C15_Witness ==
  /\ Len(results_table) = 2
  /\ Len(processed_invoices) = 2
  /\ results_table[1] # results_table[2]
  /\ \A i \in 1..2 : results_table[i] = Row(processed_invoices[i])

\* the worker has emitted its terminal signal
Terminated(me) == \E i \in 1..Len(me.emitted) : me.emitted[i] \in {"finished", "error"}

\* C1: when a run on a PDF has ended, on whatever path, the removal of every
\* page image pdf_to_images wrote for it has been attempted.
C1_PageImagesRemovedOnEveryExit ==
  \A w \in 1..Len(workers) :
    (IsPdf(workers[w].file_path) /\ workers[w].returned) =>
      workers[w].written \subseteq workers[w].remove_attempted

\* C2: at most one worker is running: no second worker is started while one
\* started before has emitted neither finished nor error.
C2_AtMostOneWorkerRunning ==
  Cardinality({w \in 1..Len(workers) : ~Terminated(workers[w])}) <= 1

\* C3: a run on a PDF for which pdf_to_images gave no page has emitted error
\* as its last signal and has returned, Failed, with no recognition backend and
\* no field extraction called and finished not emitted.
C3_NoPageFailsBeforeRecognition ==
  \A w \in 1..Len(workers) :
    LET me == workers[w]
    IN (IsPdf(me.file_path) /\ me.state \notin {"Idle", "Rasterizing"} /\ me.images = << >>)
         => /\ me.state = "Failed"
            /\ me.returned
            /\ ~me.recognized
            /\ ~me.extracted
            /\ me.emitted = <<"progress", "progress", "error">>

\* a PDF that broke after its first page was written has failed the run
C3_Witness ==
  \E w \in 1..Len(workers) :
    /\ IsPdf(workers[w].file_path)
    /\ workers[w].images = << >>
    /\ workers[w].written # {}
    /\ workers[w].state = "Failed"

\* C4: in the signals a run emits, finished or error comes last and once: no
\* progress follows it, and finished and error are not both emitted.
C4_TerminalSignalIsLast ==
  \A w \in 1..Len(workers) :
    \A i \in 1..Len(workers[w].emitted) :
      workers[w].emitted[i] \in {"finished", "error"} => i = Len(workers[w].emitted)

\* a run has emitted finished after its progress signals, and has returned
C4_Witness ==
  \E w \in 1..Len(workers) :
    /\ workers[w].returned
    /\ Len(workers[w].emitted) > 3
    /\ workers[w].emitted[Len(workers[w].emitted)] = "finished"

\* C5: a run whose recognition backend failed is never Failed and emits no
\* error: it goes on to the field extraction with the empty text, and when it
\* is Done it has emitted finished with full_text "" and ten empty fields.
C5_BackendFailureEndsDone ==
  \A w \in 1..Len(workers) :
    LET me == workers[w]
    IN me.backend_failed =>
         /\ me.state \in {"Extracting", "Done"}
         /\ me.full_text = Empty
         /\ \A i \in 1..Len(me.emitted) : me.emitted[i] # "error"
         /\ me.state = "Done" =>
              /\ me.emitted[Len(me.emitted)] = "finished"
              /\ me.result[1].full_text = Empty
              /\ DOMAIN me.result[1].fields = FieldNames
              /\ \A k \in FieldNames : me.result[1].fields[k] = Empty

\* a run with the Tesseract engine raising has ended Done, and the window has
\* received its empty result
C5_Witness ==
  \E w \in 1..Len(workers) :
    /\ workers[w].backend_failed
    /\ workers[w].ocr_engine = "Tesseract"
    /\ workers[w].state = "Done"
    /\ workers[w].returned
    /\ Len(processed_invoices) = 1
    /\ processed_invoices[1].full_text = Empty

(***************************************************************************)
(* Calls of extract_invoice_fields on the texts made of the fragments of a *)
(* vocabulary                                                              *)
(***************************************************************************)
InitCall == InitApp /\ InitNoCall

\* the recognized text grows by one fragment
Feed(vocabulary) ==
  /\ returned = << >>
  /\ nparts < MaxParts
  /\ \E part \in vocabulary : text' = text \o part
  /\ nparts' = nparts + 1
  /\ UNCHANGED <<returned, appVars, threadVars>>

\* fields = self.processor.extract_invoice_fields(full_text)
Call ==
  /\ returned = << >>
  /\ returned' = <<extract_invoice_fields(text)>>
  /\ UNCHANGED <<text, nparts, appVars, threadVars>>

Called == returned # << >>

fields == returned[1]

\* the least number of a nonempty set of numbers
Least(S) == CHOOSE k \in S : \A j \in S : k <= j

(***************************************************************************)
(* Invoice numbers                                                         *)
(***************************************************************************)
InvoiceNoA100 == <<"I","N","V","O","I","C","E"," ","N","O",":"," ","A","1","0","0">>

HashA100 == <<"#","A","1","0","0">>

NumberParts == {InvoiceNoA100, HashA100, <<"#","b","-","2">>, <<"I","n","v">>, <<"i","n","v","o","i","c","e">>, <<" ">>, <<"\n">>}

NextNumber == Feed(NumberParts) \/ Call

SpecNumber == InitCall /\ [][NextNumber]_vars

\* the invoice patterns that match somewhere in the upper-cased text
InvoiceHits == {k \in 1..Len(invoice_patterns) : search(invoice_patterns[k], upper(text)).found}

\* the two phrases of the example, one after the other in either order
InvoiceExample ==
  \E sep \in {<<" ">>, <<NL>>} :
    \/ text = InvoiceNoA100 \o sep \o HashA100
    \/ text = HashA100 \o sep \o InvoiceNoA100

Date1 == <<"1","0","/","0","1","/","2","0","2","4">>

Date2 == <<"2","5","/","0","2","/","2","0","2","4">>

DateParts == {Date1, Date2, <<"2","0","2","4","-","0","1","-","1","0">>, <<"5"," ","J","a","n"," ","2","4">>, <<" ","d","u","e"," ">>, <<"\n">>, <<"7">>}

NextDates == Feed(DateParts) \/ Call

SpecDates == InitCall /\ [][NextDates]_vars

\* every match of the three date patterns in the original-case text: pattern
\* after pattern, and left to right within a pattern
AllDates ==
  findall(date_patterns[1], text) \o findall(date_patterns[2], text)
    \o findall(date_patterns[3], text)

NoDigit(s) == \A i \in 1..Len(s) : s[i] \notin DIGIT

\* the only dates of the text are Date1 and, later, Date2: no digit outside them
OnlyTheTwoDates ==
  \E i \in 1..(Len(text) + 1) : \E j \in (i + Len(Date1))..(Len(text) + 1) :
    /\ StartsAt(text, i, Date1)
    /\ StartsAt(text, j, Date2)
    /\ NoDigit(SubSeq(text, 1, i - 1))
    /\ NoDigit(SubSeq(text, i + Len(Date1), j - 1))
    /\ NoDigit(SubSeq(text, j + Len(Date2), Len(text)))

\* C10: the dates are collected from all three date patterns, by pattern and
\* then by position in the original-case text; invoice_date is the first of
\* the collection and due_date the second, each "" when there is none; a text
\* whose only dates are 10/01/2024 and later 25/02/2024 gives these two.
C10_DatesInPatternThenMatchOrder ==
  Called =>
    /\ fields.invoice_date = (IF Len(AllDates) > 0 THEN AllDates[1] ELSE Empty)
    /\ fields.due_date = (IF Len(AllDates) > 1 THEN AllDates[2] ELSE Empty)
    /\ OnlyTheTwoDates => fields.invoice_date = Date1 /\ fields.due_date = Date2

\* the two dates of the example, with text between them, have been extracted
C10_Witness ==
  /\ Called
  /\ text = Date1 \o <<" ","d","u","e"," ">> \o Date2
  /\ OnlyTheTwoDates
  /\ fields.due_date = Date2

\* the characters of the texts
Chars == UPPER \cup LOWER \cup DIGIT \cup SPACE
           \cup {":", "#", "-", "/", ".", ",", "%", "£", "$", "€"}

\* a str: a finite sequence of characters
IsStr(v) == DOMAIN v = 1..Len(v) /\ \A i \in 1..Len(v) : v[i] \in Chars

\* C6: for every text, the empty one included, extract_invoice_fields returns
\* a mapping whose keys are exactly the ten field names and whose values are
\* all strings; for the empty text every value is "".
C6_TenStringFields ==
  Called =>
    /\ DOMAIN fields = FieldNames
    /\ \A k \in FieldNames : IsStr(fields[k])
    /\ text = Empty => \A k \in FieldNames : fields[k] = Empty

\* the empty text has been extracted from, and every field is ""
C6_Witness ==
  /\ Called
  /\ text = Empty
  /\ DOMAIN fields = FieldNames
  /\ \A k \in FieldNames : fields[k] = Empty

(***************************************************************************)
(* The total amount                                                        *)
(***************************************************************************)
TotalParts == {<<"T","O","T","A","L",":"," ">>, <<"A","M","O","U","N","T"," ","D","U","E",":"," ","5","0">>, <<"A","m","o","u","n","t"," ","D","u","e"," ","£">>, <<"7",".","5">>, <<"1",",","2">>,
               <<",">>, <<"\n">>, <<"N","/","A">>}

NextTotal == Feed(TotalParts) \/ Call

SpecTotal == InitCall /\ [][NextTotal]_vars

\* what the TOTAL and the AMOUNT DUE patterns find in the upper-cased text
TotalMatch == search(amount_patterns[1], upper(text))

DueMatch == search(amount_patterns[2], upper(text))

\* the digit-only check on a captured token, after the stripping
PassesCheck(token) ==
  LET stripped == Without(token, {"£", "$", "€", ",", ".", " ", "\n", "\t", "\r"})
  IN stripped # Empty /\ \A i \in 1..Len(stripped) : stripped[i] \in DIGIT

\* C7, as claimed: whenever the TOTAL pattern matches and its token fails the
\* digit-only check, total_amount stays empty, whatever AMOUNT DUE amount the
\* text has.
C7_NoFallbackAfterFailedCheck ==
  (Called /\ TotalMatch.found /\ ~PassesCheck(TotalMatch.group)) =>
    fields.total_amount = Empty

\* C7, amended: total_amount falls back to the AMOUNT DUE pattern when the
\* TOTAL pattern has no match and also when its token fails the digit-only
\* check: it is the stripped token of the first of the two patterns, TOTAL
\* then AMOUNT DUE, that matches with a token passing the check, and it stays
\* empty only when neither does.
C7_FallbackUnlessTotalAccepted ==
  Called =>
    IF TotalMatch.found /\ PassesCheck(TotalMatch.group)
    THEN fields.total_amount = StripAmount(TotalMatch.group)
    ELSE IF DueMatch.found /\ PassesCheck(DueMatch.group)
    THEN fields.total_amount = StripAmount(DueMatch.group)
    ELSE fields.total_amount = Empty

\* a TOTAL token that fails the check, followed by a valid AMOUNT DUE amount
C7_Witness ==
  /\ Called
  /\ TotalMatch.found /\ ~PassesCheck(TotalMatch.group)
  /\ DueMatch.found /\ PassesCheck(DueMatch.group)
  /\ fields.total_amount = <<"5","0">>

(***************************************************************************)
(* The currency                                                            *)
(***************************************************************************)
CurrencyParts == {<<"€">>, <<"$">>, <<"£">>, <<"U","S","D">>, <<"u","s","d">>, <<"G","B","P">>, <<"e","u","r">>, <<" ","5"," ">>}

NextCurrency == Feed(CurrencyParts) \/ Call

SpecCurrency == InitCall /\ [][NextCurrency]_vars

CurrencyWords == {<<"£">>, <<"$">>, <<"€">>, <<"G","B","P">>, <<"U","S","D">>, <<"E","U","R">>}

\* a currency symbol or code starts at position i of the upper-cased text
CurrencyAt(i) == \E w \in CurrencyWords : StartsAt(upper(text), i, w)

\* w is the first currency symbol or code of the upper-cased text
FirstCurrency(w) ==
  \E i \in 1..Len(text) :
    /\ StartsAt(upper(text), i, w)
    /\ \A j \in 1..(i - 1) : ~CurrencyAt(j)

\* C8, as claimed: a text with "€" anywhere has currency EUR, and a text with
\* the literal USD and none of the symbols has currency USD.
C8_EuroAnywhereUsdWithoutSymbol ==
  Called =>
    /\ contains(text, <<"€">>) => fields.currency = <<"E","U","R">>
    /\ (contains(text, <<"U","S","D">>) /\ \A c \in {"£", "$", "€"} : ~contains(text, <<c>>))
         => fields.currency = <<"U","S","D">>

\* C8, amended: the first symbol or code of the upper-cased text decides:
\* currency is EUR for every text in which "€" comes before any other of
\* £ $ GBP USD EUR, and USD for every text in which USD (in any letter case)
\* comes before any other of them; a text with none of them has currency "".
C8_FirstCurrencyDecides ==
  Called =>
    /\ FirstCurrency(<<"€">>) => fields.currency = <<"E","U","R">>
    /\ FirstCurrency(<<"U","S","D">>) => fields.currency = <<"U","S","D">>
    /\ (\A i \in 1..Len(text) : ~CurrencyAt(i)) => fields.currency = Empty

\* a text with "€" after another symbol, and one with USD in lower case first
C8_Witness ==
  /\ Called
  /\ contains(text, <<"€">>)
  /\ FirstCurrency(<<"U","S","D">>)
  /\ ~contains(text, <<"U","S","D">>)
  /\ fields.currency = <<"U","S","D">>

(***************************************************************************)
(* The bill-to block                                                       *)
(***************************************************************************)
BillToParts == {<<"B","i","l","l"," ","T","o",":","\n">>, <<"x"," ","b","i","l","l"," ","t","o","\n">>, <<"a","\n"," ","b"," ","\n","c","\n">>, <<"d","\n","e","\n","f">>, <<"h","\n","\n","i">>, <<" ","\t","\n">>, <<"g">>}

NextBillTo == Feed(BillToParts) \/ Call

SpecBillTo == InitCall /\ [][NextBillTo]_vars

\* the lines of the text whose upper-cased form contains BILL TO
BillToHeaders == {i \in 1..Len(split(text)) : contains(upper(split(text)[i]), <<"B","I","L","L"," ","T","O">>)}

\* a line with nothing but whitespace
Blank(line) == \A i \in 1..Len(line) : line[i] \in SPACE

\* how many lines follow line h immediately before the first blank line, the
\* end of the text, or the fifth line, whichever comes first: the most, up to
\* 5, such that that many lines after h exist and none of them is blank
BillToCount(h) ==
  LET lines == split(text)
      runs == {k \in 0..5 : h + k <= Len(lines) /\ \A j \in 1..k : ~Blank(lines[h + j])}
  IN CHOOSE k \in runs : \A j \in runs : j <= k

\* C11: bill_to is "" when no line contains BILL TO (in any letter case);
\* otherwise it is the single-space join of the stripped lines that follow the
\* first such line immediately, up to the first blank line, the end of the
\* text, or 5 lines; no line after the first blank line is included.
C11_BillToBlock ==
  Called =>
    IF BillToHeaders = {} THEN fields.bill_to = Empty
    ELSE LET h == Least(BillToHeaders)
             n == BillToCount(h)
         IN fields.bill_to = join(<<" ">>, [j \in 1..n |-> strip(split(text)[h + j])])

\* a header followed by six non-blank lines has been extracted from: five of
\* them are taken
C11_Witness ==
  /\ Called
  /\ Len(split(text)) = 7
  /\ BillToHeaders = {1}
  /\ BillToCount(1) = 5
  /\ ~Blank(split(text)[7])
  /\ fields.bill_to = <<"a"," ","b"," ","c"," ","d"," ","e">>

(***************************************************************************)
(* The vendor lines                                                        *)
(***************************************************************************)
VendorParts == {<<"I","N","V","O","I","C","E"," ","1","\n","\n","D","a","t","e","\n","b","i","l","l"," ","t","o","\n"," ","\n">>, <<"A","c","m","e"," ","C","o","r","p","\n">>, <<" ","4","5","6"," ","O","a","k"," ","A","v","e"," ","\n">>, <<"u","p","d","a","t","e","\n">>,
                <<"c","\n","d","\n">>, <<"z">>, <<"I","N","V","O","I","C","E"," ","#","1","2","3","\n">>}

NextVendor == Feed(VendorParts) \/ Call

SpecVendor == InitCall /\ [][NextVendor]_vars

\* the lines among the first 10 that are not blank and have none of INVOICE,
\* BILL TO, DATE in their upper-cased form
Qualifying ==
  {i \in 1..Len(split(text)) :
     /\ i <= 10
     /\ ~Blank(split(text)[i])
     /\ ~contains(upper(split(text)[i]), <<"I","N","V","O","I","C","E">>)
     /\ ~contains(upper(split(text)[i]), <<"B","I","L","L"," ","T","O">>)
     /\ ~contains(upper(split(text)[i]), <<"D","A","T","E">>)}

\* the n-th qualifying line, from the top
NthQualifying(n) ==
  split(text)[CHOOSE i \in Qualifying : Cardinality({j \in Qualifying : j < i}) = n - 1]

\* C12, as claimed: vendor_name is the first qualifying line and vendor_address
\* the single-space join of the second and the third, as they stand in the text.
C12_VendorLinesVerbatim ==
  Called =>
    /\ Cardinality(Qualifying) >= 1 => fields.vendor_name = NthQualifying(1)
    /\ Cardinality(Qualifying) = 2 => fields.vendor_address = NthQualifying(2)
    /\ Cardinality(Qualifying) >= 3 =>
         fields.vendor_address = NthQualifying(2) \o <<" ">> \o NthQualifying(3)

\* C12, amended: the vendor lines are the first (at most 3) qualifying lines
\* among the first 10 lines, each stripped of its surrounding whitespace:
\* vendor_name is the first and vendor_address the single-space join of the
\* second and the third; both are "" without a qualifying line, and neither a
\* line after the tenth nor a qualifying line after the third contributes.
C12_VendorLinesStripped ==
  Called =>
    /\ fields.vendor_name =
         (IF Cardinality(Qualifying) >= 1 THEN strip(NthQualifying(1)) ELSE Empty)
    /\ fields.vendor_address =
         (IF Cardinality(Qualifying) >= 3
          THEN strip(NthQualifying(2)) \o <<" ">> \o strip(NthQualifying(3))
          ELSE IF Cardinality(Qualifying) = 2 THEN strip(NthQualifying(2))
          ELSE Empty)

\* the vendor, a skipped INVOICE line, and an address line with whitespace
\* around it have been extracted from
C12_Witness ==
  /\ Called
  /\ text = <<"A","c","m","e"," ","C","o","r","p","\n">> \o <<"I","N","V","O","I","C","E"," ","#","1","2","3","\n">> \o <<" ","4","5","6"," ","O","a","k"," ","A","v","e"," ","\n">>
  /\ Qualifying = {1, 3}
  /\ fields.vendor_name = <<"A","c","m","e"," ","C","o","r","p">>
  /\ fields.vendor_address = <<"4","5","6"," ","O","a","k"," ","A","v","e">>

(***************************************************************************)
(* The three amounts                                                       *)
(***************************************************************************)
AmountParts == {<<"S","U","B","T","O","T","A","L",":"," ","5","\n">>, <<"T","O","T","A","L",":"," ","7","\n">>, <<"T","a","x"," ","2","0","%",":"," ">>, <<"£"," ","1",",","2",".","5","0">>, <<"S","u","b","t","o","t","a","l"," ">>, <<",">>, <<".">>, <<"\n">>}

NextAmounts == Feed(AmountParts) \/ Call

SpecAmounts == InitCall /\ [][NextAmounts]_vars

\* the lines of the text whose upper-cased form contains TOTAL
TotalLines == {i \in 1..Len(split(text)) : contains(upper(split(text)[i]), <<"T","O","T","A","L">>)}

\* C14: in a text whose line "SUBTOTAL: 5" precedes its line "TOTAL: 7", with
\* no other line naming a total, subtotal is 5 and total_amount is 7.
C14_TotalIndependentOfSubtotal ==
  Called =>
    \A i, j \in 1..Len(split(text)) :
      (/\ i < j
       /\ TotalLines = {i, j}
       /\ split(text)[i] = <<"S","U","B","T","O","T","A","L",":"," ","5">>
       /\ split(text)[j] = <<"T","O","T","A","L",":"," ","7">>)
        => /\ fields.subtotal = <<"5">>
           /\ fields.total_amount = <<"7">>

\* "", or digits with at most one "." among them and at least one digit
PlainAmount(v) ==
  \/ v = Empty
  \/ /\ \A i \in 1..Len(v) : v[i] \in DIGIT \cup {"."}
     /\ Cardinality({i \in 1..Len(v) : v[i] = "."}) <= 1
     /\ \E i \in 1..Len(v) : v[i] \in DIGIT

\* C16: each of total_amount, subtotal and tax_amount is "" or made only of
\* decimal digits and at most one ".", with at least one digit: no currency
\* symbol, comma or whitespace is left in it.
C16_AmountsArePlain ==
  Called =>
    /\ PlainAmount(fields.total_amount)
    /\ PlainAmount(fields.subtotal)
    /\ PlainAmount(fields.tax_amount)

\* a token with a currency symbol, a space, a comma and a decimal point has been
\* captured and stored stripped
C16_Witness ==
  /\ Called
  /\ text = <<"S","u","b","t","o","t","a","l"," ">> \o <<"£"," ","1",",","2",".","5","0">>
  /\ search(amount_patterns[3], upper(text)).group = <<"£"," ","1",",","2",".","5","0">>
  /\ fields.subtotal = <<"1","2",".","5","0">>

====
